---- MODULE Spec2Model ----
(***************************************************************************)
(* A model of recursiveCheck (src/src/recursiveCheck.ts), the recursive    *)
(* comparison behind the deep-close-to matchers.                           *)
(*                                                                         *)
(* JavaScript values are records tagged by t.  A number is finite          *)
(* (k = "fin", value v), NaN, +Infinity or -Infinity.  A plain object is   *)
(* the sequence of its own enumerable properties <<key, value>> in the     *)
(* order Object.keys and for...in enumerate them.  A discrepancy is a      *)
(* function from the field names it owns to their values, so that          *)
(* "diff" \in DOMAIN e says that e has a diff field.                       *)
(***************************************************************************)
EXTENDS Integers, Sequences, FiniteSets, TLC

\* Bounds of the model.
MaxNum == 3
MaxLen == 2
MaxPrecision == 1

---------------------------------------------------------------------------
\* JavaScript values

Num(n) == [t |-> "number", k |-> "fin", v |-> n]
NaN == [t |-> "number", k |-> "nan", v |-> 0]
PosInfinity == [t |-> "number", k |-> "pinf", v |-> 0]
NegInfinity == [t |-> "number", k |-> "ninf", v |-> 0]
Str(s) == [t |-> "string", v |-> s]
Bool(b) == [t |-> "boolean", v |-> b]
Undefined == [t |-> "undefined"]
Null == [t |-> "null"]
Arr(s) == [t |-> "Array", v |-> s]
F32(s) == [t |-> "Float32Array", v |-> s]
F64(s) == [t |-> "Float64Array", v |-> s]
Obj(props) == [t |-> "Object", v |-> props]

\* The no-failure sentinel: the JavaScript value false.
False == Bool(FALSE)

typeof(x) ==
  CASE x.t = "number" -> "number"
    [] x.t = "string" -> "string"
    [] x.t = "boolean" -> "boolean"
    [] x.t = "undefined" -> "undefined"
    [] OTHER -> "object"

isNaN(x) == x.k = "nan"
isFinite(x) == x.k = "fin"

\* a - b on numbers.
Minus(a, b) ==
  CASE a.k = "nan" \/ b.k = "nan" -> NaN
    [] a.k = "fin" /\ b.k = "fin" -> Num(a.v - b.v)
    [] a.k = "fin" /\ b.k = "pinf" -> NegInfinity
    [] a.k = "fin" /\ b.k = "ninf" -> PosInfinity
    [] a.k = b.k -> NaN
    [] OTHER -> a

MathAbs(x) ==
  CASE x.k = "nan" -> NaN
    [] x.k = "fin" -> Num(IF x.v < 0 THEN -x.v ELSE x.v)
    [] OTHER -> PosInfinity

\* a <= b on numbers.
LessEq(a, b) ==
  CASE a.k = "nan" \/ b.k = "nan" -> FALSE
    [] a.k = "fin" /\ b.k = "fin" -> a.v <= b.v
    [] a.k = b.k -> TRUE
    [] OTHER -> a.k = "ninf" \/ b.k = "pinf"

\* a === b on primitives.
StrictEquals(a, b) ==
  /\ a.t = b.t
  /\ IF a.t = "number" THEN a.k # "nan" /\ b.k # "nan" /\ a.k = b.k /\ a.v = b.v
     ELSE a = b

\* The tolerance of a precision, on a grid of quarters: 10^-precision / 2 is
\* two quarters at precision 0 and less than one quarter above it.
calculatePrecision(precision) == IF precision <= 0 THEN Num(2) ELSE Num(0)

ArrayIsArray(value) == value.t = "Array"

isArray(value) ==
  \/ ArrayIsArray(value)
  \/ value.t = "Float32Array"
  \/ value.t = "Float64Array"

\* String(i) for an index.
IndexKey(i) == <<"0", "1", "2", "3", "4", "5", "6", "7", "8", "9">>[i + 1]

\* Object.keys(x): the own enumerable string keys, in property order.
ObjectKeys(x) ==
  IF x.t = "Object" THEN [i \in 1..Len(x.v) |-> x.v[i][1]]
  ELSE [i \in 1..Len(x.v) |-> IndexKey(i - 1)]

Range(s) == {s[i] : i \in 1..Len(s)}

hasOwnProperty(x, key) == key \in Range(ObjectKeys(x))

\* x[prop]
Get(x, prop) ==
  LET ks == ObjectKeys(x) IN
  IF prop \in Range(ks)
  THEN LET i == CHOOSE j \in 1..Len(ks) : ks[j] = prop IN
       IF x.t = "Object" THEN x.v[i][2] ELSE x.v[i]
  ELSE Undefined

\* The collation order of the keys of the model.
Collation == <<"0", "1", "2", "3", "4", "5", "6", "7", "8", "9", "a", "b">>
Rank(key) == CHOOSE i \in 1..Len(Collation) : Collation[i] = key

\* a.localeCompare(b)
sorter(a, b) ==
  IF Rank(a) < Rank(b) THEN -1 ELSE IF Rank(a) > Rank(b) THEN 1 ELSE 0

RECURSIVE Insert(_, _)
Insert(sorted, key) ==
  IF sorted = <<>> THEN <<key>>
  ELSE IF sorter(key, Head(sorted)) < 0 THEN <<key>> \o sorted
  ELSE <<Head(sorted)>> \o Insert(Tail(sorted), key)

\* keys.sort(sorter), on a copy of keys.
RECURSIVE Sort(_)
Sort(keys) ==
  IF keys = <<>> THEN <<>> ELSE Insert(Sort(Tail(keys)), Head(keys))

\* ForIn enumerating the keys in sorted order.
ForInSorted(x) == Sort(ObjectKeys(x))

\* for (const prop in x): a plain object or a typed array inherits no
\* enumerable property, so the own keys in property order.
ForIn(x) == ObjectKeys(x)

\* A JavaScript array of strings.
StrArray(keys) == Arr([i \in 1..Len(keys) |-> Str(keys[i])])

\* { ...error, field: value }
Spread(error, field, value) ==
  [f \in DOMAIN error \cup {field} |-> IF f = field THEN value ELSE error[f]]

---------------------------------------------------------------------------
\* recursiveCheck, branch by branch

numberError(received, expected) ==
  [reason |-> "Expected", expected |-> expected, received |-> received]

\* checkNumbers without the branch for an infinite received.
checkNumbersNoInfinity(received, expected, precision) ==
  IF isNaN(received)
  THEN IF isNaN(expected) THEN False ELSE numberError(received, expected)
  ELSE IF LessEq(MathAbs(Minus(received, expected)), calculatePrecision(precision))
  THEN False
  ELSE [reason |-> "Expected", expected |-> expected, received |-> received,
        diff |-> MathAbs(Minus(received, expected))]

\* checkNumbers with NaN equal to nothing.
checkNumbersNaNUnequal(received, expected, precision) ==
  IF isNaN(received)
  THEN numberError(received, expected)
  ELSE IF ~isFinite(received)
  THEN IF StrictEquals(received, expected) THEN False
       ELSE numberError(received, expected)
  ELSE IF LessEq(MathAbs(Minus(received, expected)), calculatePrecision(precision))
  THEN False
  ELSE [reason |-> "Expected", expected |-> expected, received |-> received,
        diff |-> MathAbs(Minus(received, expected))]

\* checkNumbers with the signed difference in place of its absolute value.
checkNumbersSigned(received, expected, precision) ==
  IF isNaN(received)
  THEN IF isNaN(expected) THEN False ELSE numberError(received, expected)
  ELSE IF ~isFinite(received)
  THEN IF StrictEquals(received, expected) THEN False
       ELSE numberError(received, expected)
  ELSE IF LessEq(Minus(received, expected), calculatePrecision(precision))
  THEN False
  ELSE [reason |-> "Expected", expected |-> expected, received |-> received,
        diff |-> MathAbs(Minus(received, expected))]

checkNumbers(received, expected, precision) ==
  IF isNaN(received)
  THEN IF isNaN(expected) THEN False ELSE numberError(received, expected)
  ELSE IF ~isFinite(received)
  THEN IF StrictEquals(received, expected) THEN False
       ELSE numberError(received, expected)
  ELSE IF LessEq(MathAbs(Minus(received, expected)), calculatePrecision(precision))
  THEN False
  ELSE [reason |-> "Expected", expected |-> expected, received |-> received,
        diff |-> MathAbs(Minus(received, expected))]

checkPrimitives(received, expected) ==
  IF StrictEquals(received, expected) THEN False
  ELSE [reason |-> "The " \o typeof(expected) \o "s do not match",
        expected |-> expected, received |-> received]

\* lengthError with the two lengths exchanged.
lengthErrorExchanged(receivedLength, expectedLength) ==
  [reason |-> "The arrays length does not match",
   expected |-> Num(receivedLength), received |-> Num(expectedLength)]

lengthError(receivedLength, expectedLength) ==
  [reason |-> "The arrays length does not match",
   expected |-> Num(expectedLength), received |-> Num(receivedLength)]

withIndex(error, i) == Spread(error, "index", i)

withKey(propError, prop) == Spread(propError, "key", prop)

\* sameLength that compares the key counts whatever strict is.
sameLengthAlways(strict, receivedKeys, expectedKeys) ==
  Len(receivedKeys) = Len(expectedKeys)

sameLength(strict, receivedKeys, expectedKeys) ==
  ~strict \/ Len(receivedKeys) = Len(expectedKeys)

keysError(receivedKeys, expectedKeys) ==
  [reason |-> "The objects do not have similar keys",
   expected |-> StrArray(expectedKeys), received |-> StrArray(receivedKeys)]

bothObjects(received, expected) ==
  /\ expected.t # "null"
  /\ typeof(expected) = "object"
  /\ ~ArrayIsArray(received)
  /\ received.t # "null"
  /\ typeof(received) = "object"
  /\ ~ArrayIsArray(expected)

fallback(received, expected) ==
  [reason |-> "The current data type is not supported or they do not match",
   expected |-> Str(typeof(expected)), received |-> Str(typeof(received))]

RECURSIVE recursiveCheck(_, _, _, _)
RECURSIVE arrayLoop(_, _, _, _, _)
RECURSIVE propLoop(_, _, _, _, _, _)

\* for (let i = 0; i < receivedLength; i++), from index i on.
arrayLoop(received, expected, precision, strict, i) ==
  IF i >= Len(received.v) THEN False
  ELSE LET error == recursiveCheck(received.v[i + 1], expected.v[i + 1],
                                   precision, strict) IN
       IF error # False THEN withIndex(error, i)
       ELSE arrayLoop(received, expected, precision, strict, i + 1)

\* for (const prop in expected), from the j-th enumerated property on.
propLoop(received, expected, props, precision, strict, j) ==
  IF j > Len(props) THEN False
  ELSE LET prop == props[j]
           propError == recursiveCheck(Get(received, prop), Get(expected, prop),
                                       precision, strict) IN
       IF propError # False THEN withKey(propError, prop)
       ELSE propLoop(received, expected, props, precision, strict, j + 1)

checkArrays(received, expected, precision, strict) ==
  LET receivedLength == Len(received.v)
      expectedLength == Len(expected.v) IN
  IF receivedLength # expectedLength
  THEN lengthError(receivedLength, expectedLength)
  ELSE arrayLoop(received, expected, precision, strict, 0)

checkObjects(received, expected, precision, strict) ==
  LET receivedKeys == Sort(ObjectKeys(received))
      expectedKeys == Sort(ObjectKeys(expected)) IN
  IF \/ ~sameLength(strict, receivedKeys, expectedKeys)
     \/ \E i \in 1..Len(expectedKeys) : ~hasOwnProperty(received, expectedKeys[i])
  THEN keysError(receivedKeys, expectedKeys)
  ELSE propLoop(received, expected, ForIn(expected), precision, strict, 1)

recursiveCheck(received, expected, precision, strict) ==
  IF typeof(received) = "number" /\ typeof(expected) = "number"
  THEN checkNumbers(received, expected, precision)
  ELSE IF \/ typeof(received) = "string" /\ typeof(expected) = "string"
          \/ typeof(received) = "boolean" /\ typeof(expected) = "boolean"
  THEN checkPrimitives(received, expected)
  ELSE IF isArray(received) /\ isArray(expected)
  THEN checkArrays(received, expected, precision, strict)
  ELSE IF expected.t = "undefined" /\ received.t = "undefined" THEN False
  ELSE IF expected.t = "null" /\ received.t = "null" THEN False
  ELSE IF bothObjects(received, expected)
  THEN checkObjects(received, expected, precision, strict)
  ELSE fallback(received, expected)

---------------------------------------------------------------------------
\* The values compared

Numbers == {Num(n) : n \in 0..MaxNum} \cup {NaN, PosInfinity, NegInfinity}

Scalars ==
  Numbers \cup {Str("x"), Str("y"), Bool(TRUE), Bool(FALSE), Null, Undefined}

\* The values held by the containers of the model.
Elements == {Num(0), Num(MaxNum), Undefined}

Keys == {"0", "a", "b"}

SeqsOver(S) == UNION {[1..n -> S] : n \in 0..MaxLen}

\* Own keys in property order: distinct, an integer key before the others.
KeyLists ==
  {ks \in SeqsOver(Keys) :
     /\ \A i, j \in 1..Len(ks) : i # j => ks[i] # ks[j]
     /\ \A i \in 2..Len(ks) : ks[i] # "0"}

ObjectsOver(S) ==
  {Obj([i \in 1..Len(ks) |-> <<ks[i], vs[i]>>]) :
     <<ks, vs>> \in {kv \in KeyLists \X SeqsOver(S) : Len(kv[1]) = Len(kv[2])}}

ContainersOver(S) ==
  {Arr(s) : s \in SeqsOver(S)} \cup ObjectsOver(S)

Buffers ==
  {F32(s) : s \in SeqsOver({Num(0), Num(MaxNum)})}
    \cup {F64(s) : s \in SeqsOver({Num(0), Num(MaxNum)})}

Values == Scalars \cup ContainersOver(Elements) \cup Buffers

\* The values nested one level down.
Nested ==
  {Num(0), Num(MaxNum), NaN, Undefined}
    \cup ContainersOver({Num(0), Num(MaxNum)}) \cup {F64(<<Num(0)>>)}

\* The enclosing levels: none, a sequence holding the value first or second,
\* a structure holding it under a key, alone or beside another key.
Wrappers == {"none", "first", "second", "key", "extra"}

WrapReceived(w, value) ==
  CASE w = "first" -> Arr(<<value>>)
    [] w = "second" -> Arr(<<Num(0), value>>)
    [] w = "key" -> Obj(<<<<"b", value>>>>)
    [] w = "extra" -> Obj(<<<<"b", value>>, <<"a", Num(MaxNum)>>>>)
    [] OTHER -> value

WrapExpected(w, value) ==
  CASE w = "first" -> Arr(<<value>>)
    [] w = "second" -> Arr(<<Num(0), value>>)
    [] w = "key" -> Obj(<<<<"b", value>>>>)
    [] w = "extra" -> Obj(<<<<"b", value>>>>)
    [] OTHER -> value

Inputs ==
  {<<r, e>> : r \in Values, e \in Values}
    \cup {<<WrapReceived(w, r), WrapExpected(w, e)>> :
            w \in Wrappers, r \in Nested, e \in Nested}

---------------------------------------------------------------------------
\* One call of recursiveCheck

VARIABLES received, expected, precision, strict, result, pc

vars == <<received, expected, precision, strict, result, pc>>

Init ==
  /\ \E in \in Inputs : received = in[1] /\ expected = in[2]
  /\ precision \in 0..MaxPrecision
  /\ strict \in BOOLEAN
  /\ result = Undefined
  /\ pc = "start"

\* recursiveCheck(received, expected, precision, strict)
Call ==
  /\ pc = "start"
  /\ result' = recursiveCheck(received, expected, precision, strict)
  /\ pc' = "done"
  /\ UNCHANGED <<received, expected, precision, strict>>

\* recursiveCheck(received, expected, precision): strict defaults to true.
CallDefault ==
  /\ pc = "start"
  /\ strict' = TRUE
  /\ result' = recursiveCheck(received, expected, precision, TRUE)
  /\ pc' = "done"
  /\ UNCHANGED <<received, expected, precision>>

Next == Call \/ CallDefault

Spec == Init /\ [][Next]_vars

Done == pc = "done"

---------------------------------------------------------------------------
\* Vocabulary of the properties

Abs(n) == IF n < 0 THEN -n ELSE n

Min(S) == CHOOSE i \in S : \A j \in S : i <= j

IsNumber(x) == x.t = "number"
IsObject(x) == x.t = "Object"
IsSequenceLike(x) == x.t \in {"Array", "Float32Array", "Float64Array"}

KeySet(x) == {x.v[i][1] : i \in 1..Len(x.v)}

\* The value a structure holds under one of its keys.
ValueAt(x, key) == x.v[CHOOSE i \in 1..Len(x.v) : x.v[i][1] = key][2]

\* The path annotations of a discrepancy.
Annotations(e) == DOMAIN e \cap {"index", "key"}

\* A discrepancy is the child's discrepancy with one more annotation.
Annotated(e, child, field, value) ==
  /\ DOMAIN e = DOMAIN child \cup {field}
  /\ e[field] = value
  /\ \A f \in DOMAIN child \ {field} : e[f] = child[f]

\* Two numbers match: both NaN, the same infinity, or finite within tolerance.
NumbersMatch(r, e, p) ==
  \/ r.k = "nan" /\ e.k = "nan"
  \/ r.k \in {"pinf", "ninf"} /\ e.k = r.k
  \/ r.k = "fin" /\ e.k = "fin" /\ Abs(r.v - e.v) <= calculatePrecision(p).v

\* C1: for two numbers the call matches exactly when both are NaN, both are
\* the same infinity, or both are finite and within the tolerance; every
\* other numeric pair yields a discrepancy with reason 'Expected' that
\* carries both values.
C1_NumbersMatchIff ==
  (Done /\ IsNumber(received) /\ IsNumber(expected)) =>
    /\ (result = False) <=> NumbersMatch(received, expected, precision)
    /\ result # False =>
         /\ result.reason = "Expected"
         /\ result.expected = expected
         /\ result.received = received

C1_Witness ==
  /\ Done
  /\ received = Num(0)
  /\ expected = PosInfinity
  /\ result # False
  /\ result.reason = "Expected"

\* The key-set discrepancy of two structures, as the outermost frame returns it.
KeySetDiscrepancy(r, e) ==
  [reason |-> "The objects do not have similar keys",
   expected |-> StrArray(Sort(ObjectKeys(e))),
   received |-> StrArray(Sort(ObjectKeys(r)))]

\* received without the keys expected does not have, at every depth.
RECURSIVE Prune(_, _)
Prune(r, e) ==
  IF IsObject(r) /\ IsObject(e)
  THEN LET kept == SelectSeq(r.v, LAMBDA p : p[1] \in KeySet(e)) IN
       Obj([i \in 1..Len(kept) |->
              <<kept[i][1], Prune(kept[i][2], ValueAt(e, kept[i][1]))>>])
  ELSE IF r.t = "Array" /\ e.t = "Array" /\ Len(r.v) = Len(e.v)
  THEN Arr([i \in 1..Len(r.v) |-> Prune(r.v[i], e.v[i])])
  ELSE r

\* Two results that differ at most in the received key list of a key-set
\* discrepancy.
SameOutcome(a, b) ==
  /\ (a = False) <=> (b = False)
  /\ a # False =>
       /\ DOMAIN a = DOMAIN b
       /\ \A f \in DOMAIN a \ {"received"} : a[f] = b[f]
       /\ a.reason # "The objects do not have similar keys" => a = b

MismatchingPositions(r, e, p, s) ==
  {i \in 1..Len(e.v) : recursiveCheck(Get(r, e.v[i][1]), e.v[i][2], p, s) # False}

PassKeySetCheck(r, e, s) ==
  /\ IsObject(r)
  /\ IsObject(e)
  /\ KeySet(e) \subseteq KeySet(r)
  /\ s => Len(r.v) = Len(e.v)

ChildDiscrepancy(r, e, p, s) ==
  IF isArray(r) /\ isArray(e)
  THEN LET i == Min({j \in 1..Len(r.v) :
                       recursiveCheck(r.v[j], e.v[j], p, s) # False})
       IN recursiveCheck(r.v[i], e.v[i], p, s)
  ELSE LET i == Min(MismatchingPositions(r, e, p, s))
       IN recursiveCheck(Get(r, e.v[i][1]), e.v[i][2], p, s)

HasChildDiscrepancy(r, e, p, s) ==
  \/ /\ isArray(r) /\ isArray(e) /\ Len(r.v) = Len(e.v)
     /\ \E j \in 1..Len(r.v) : recursiveCheck(r.v[j], e.v[j], p, s) # False
  \/ /\ PassKeySetCheck(r, e, s)
     /\ MismatchingPositions(r, e, p, s) # {}

\* C4: the annotations of a discrepancy give the root-to-leaf path: a frame
\* that adds its index or key loses and replaces no annotation an inner frame
\* added.
C4_PathPreserved ==
  (Done /\ HasChildDiscrepancy(received, expected, precision, strict)) =>
    LET child == ChildDiscrepancy(received, expected, precision, strict) IN
    /\ result # False
    /\ \A f \in Annotations(child) : f \in DOMAIN result /\ result[f] = child[f]

\* A fixed numeric buffer read as the ordinary sequence of its elements.
AsSequence(x) == IF x.t \in {"Float32Array", "Float64Array"} THEN Arr(x.v) ELSE x

\* C5: a sequence-like value against a keyed structure, in either order,
\* yields the fallback discrepancy with both category labels; and replacing a
\* numeric buffer by the ordinary sequence of its elements changes neither
\* whether the call matches nor the reason.
C5_SequenceAgainstStructure ==
  Done =>
    /\ (\/ IsSequenceLike(received) /\ IsObject(expected)
        \/ IsObject(received) /\ IsSequenceLike(expected)) =>
         result =
           [reason |-> "The current data type is not supported or they do not match",
            expected |-> Str("object"), received |-> Str("object")]
    /\ LET other == recursiveCheck(AsSequence(received), AsSequence(expected),
                                   precision, strict) IN
       /\ (result = False) <=> (other = False)
       /\ result # False => result.reason = other.reason

\* C6: a discrepancy carries diff only for two finite numbers out of
\* tolerance, and then diff is abs(received - expected).
C6_DiffOnlyFinite ==
  (Done /\ result # False /\ "diff" \in DOMAIN result) =>
    /\ result.reason = "Expected"
    /\ IsNumber(result.received) /\ result.received.k = "fin"
    /\ IsNumber(result.expected) /\ result.expected.k = "fin"
    /\ result.diff = Num(Abs(result.received.v - result.expected.v))

\* C7: two sequence-like values of different lengths yield the length
\* discrepancy with both lengths, whatever their elements; of equal lengths,
\* the discrepancy of the lowest mismatching index i annotated with index = i;
\* and the no-failure sentinel if every pair matches.
C7_SequenceRule ==
  (Done /\ IsSequenceLike(received) /\ IsSequenceLike(expected)) =>
    IF Len(received.v) # Len(expected.v)
    THEN result = [reason |-> "The arrays length does not match",
                   expected |-> Num(Len(expected.v)),
                   received |-> Num(Len(received.v))]
    ELSE LET mis == {i \in 0..(Len(received.v) - 1) :
                       recursiveCheck(received.v[i + 1], expected.v[i + 1],
                                      precision, strict) # False} IN
         IF mis = {} THEN result = False
         ELSE /\ result # False
              /\ Annotated(result,
                           recursiveCheck(received.v[Min(mis) + 1],
                                          expected.v[Min(mis) + 1],
                                          precision, strict),
                           "index", Min(mis))

C7_Witness ==
  /\ Done
  /\ received = Arr(<<Num(0), Num(0)>>)
  /\ expected = Arr(<<Num(MaxNum), Num(MaxNum)>>)
  /\ result # False
  /\ result.index = 0
  /\ result.diff = Num(MaxNum)

\* C8: without strict, a key that expected holds with the value undefined and
\* received does not have counts as a match: if every other key of expected
\* matches, the call matches.
C8_ImplicitlyUndefined ==
  (/\ Done
   /\ ~strict
   /\ IsObject(received)
   /\ IsObject(expected)
   /\ \A i \in 1..Len(expected.v) :
        IF expected.v[i][1] \in KeySet(received)
        THEN recursiveCheck(Get(received, expected.v[i][1]), expected.v[i][2],
                            precision, strict) = False
        ELSE expected.v[i][2] = Undefined)
    => result = False

\* C9: a value compared with itself matches, at any precision and strictness.
C9_Reflexive ==
  (Done /\ received = expected) => result = False

C9_Witness ==
  /\ Done
  /\ received = Arr(<<Num(0), Obj(<<<<"b", Num(MaxNum)>>, <<"a", Num(0)>>>>)>>)
  /\ expected = received
  /\ result = False

\* C10: under strict, a call matches exactly when the call with received and
\* expected exchanged matches.
C10_StrictSymmetric ==
  (Done /\ strict) =>
    (result = False) <=>
      (recursiveCheck(expected, received, precision, TRUE) = False)

\* Without strict the exchange can turn a match into a mismatch.
C10_Witness ==
  /\ Done
  /\ ~strict
  /\ IsObject(received)
  /\ IsObject(expected)
  /\ result = False
  /\ recursiveCheck(expected, received, precision, FALSE) # False

====
